---- MODULE Spec2Model ----
(***************************************************************************)
(* Model of ingest.py: the document ingestion pipeline (format registry,   *)
(* corpus scanner with a worker pool, chunker, incremental index sync,     *)
(* batched storage, final persist).                                        *)
(*                                                                         *)
(* Strings of the program (paths, extensions) are sequences of one-letter  *)
(* strings, so that rsplit, lower, upper and the glob suffix match are     *)
(* computed letter by letter as the code computes them.                    *)
(***************************************************************************)
EXTENDS Integers, Sequences, FiniteSets, TLC

VARIABLES
    fs,              \* the regular files present on disk (set of paths)
    store,           \* the persistent index: sequence of stored chunk records
    store0,          \* history: the persistent index when this run started
    pc,              \* position of main(): idle, loading, storing, done, nonew, failed
    branch,          \* "incremental" / "fresh" / "none": outcome of does_vectorstore_exist
    ignored_files,   \* the list passed to load_documents in this run
    filtered_files,  \* load_documents: the list handed to the worker pool
    next_task,       \* pool: index of the next task of filtered_files to dispatch
    running,         \* pool: tasks being executed by a worker
    outqueue,        \* pool: finished tasks [task, ok, docs] not yet iterated by the driver
    results,         \* load_documents: results list (documents)
    pbar,            \* load_documents: tqdm progress count
    texts,           \* main: the chunk list returned by process_documents
    i,               \* main: index of the batch loop
    calls,           \* history: storage backend calls of this run, in order
    loads,           \* history: paths load_single_document received in this run
    split_calls,     \* history: number of split_documents calls of this run
    exit_status,     \* exit status of the last finished run (-1 while running)
    runs,            \* number of runs started
    changed,         \* history: the directory changed since the last run started
    rerun,           \* history: this run follows a completed run with the directory unchanged
    probe_path,      \* direct call of load_single_document: its argument
    probe_result     \* direct call of load_single_document: its outcome

vars == <<fs, store, store0, pc, branch, ignored_files, filtered_files, next_task, running,
          outqueue, results, pbar, texts, i, calls, loads, split_calls, exit_status,
          runs, changed, rerun, probe_path, probe_result>>

mainVars == <<fs, store, store0, pc, branch, ignored_files, filtered_files, next_task, running,
              outqueue, results, pbar, texts, i, calls, loads, split_calls, exit_status,
              runs, changed, rerun>>

-----------------------------------------------------------------------------
(* Bounds *)

\* number of runs of main() in one behaviour
MaxRuns == 2

\* os.cpu_count() of the machine: the size of the worker pool
cpu_count == 2

\* pages of the PDF file of the corpus (PyPDFLoader returns one document per page)
PagesPerPdf == 2

\* length in characters of the plain-text file of the corpus
TxtLen == 1200

-----------------------------------------------------------------------------
(* Program constants *)

chunk_size == 500

chunk_overlap == 50

batch_size == 50

source_directory == <<"s">>

-----------------------------------------------------------------------------
(* Python string operations on sequences of letters *)

LowerLetters == <<"a","b","c","d","e","f","g","h","i","j","k","l","m",
                  "n","o","p","q","r","s","t","u","v","w","x","y","z">>

UpperLetters == <<"A","B","C","D","E","F","G","H","I","J","K","L","M",
                  "N","O","P","Q","R","S","T","U","V","W","X","Y","Z">>

LowerChar(c) ==
    IF \E k \in 1..26 : UpperLetters[k] = c
    THEN LowerLetters[CHOOSE k \in 1..26 : UpperLetters[k] = c]
    ELSE c

UpperChar(c) ==
    IF \E k \in 1..26 : LowerLetters[k] = c
    THEN UpperLetters[CHOOSE k \in 1..26 : LowerLetters[k] = c]
    ELSE c

\* str.lower()
Lower(s) == [k \in 1..Len(s) |-> LowerChar(s[k])]

\* str.upper()
Upper(s) == [k \in 1..Len(s) |-> UpperChar(s[k])]

\* position of the last "." of s, 0 when s has none
LastDot(s) ==
    IF \E k \in 1..Len(s) : s[k] = "."
    THEN CHOOSE k \in 1..Len(s) : s[k] = "." /\ \A m \in (k+1)..Len(s) : s[m] # "."
    ELSE 0

\* s.rsplit(".", 1)[-1]: the text after the last ".", the whole of s when it has none
RSplitLast(s) == SubSeq(s, LastDot(s) + 1, Len(s))

\* s.endswith(t)
EndsWith(s, t) == Len(s) >= Len(t) /\ SubSeq(s, Len(s) - Len(t) + 1, Len(s)) = t

\* s.startswith(t)
StartsWith(s, t) == Len(s) >= Len(t) /\ SubSeq(s, 1, Len(t)) = t

-----------------------------------------------------------------------------
(* Format registry *)

LOADER_MAPPING ==
    << [ext |-> <<".","c","s","v">>,     loader |-> "CSVLoader",                      args |-> "{}"],
       [ext |-> <<".","d","o","c">>,     loader |-> "UnstructuredWordDocumentLoader", args |-> "{}"],
       [ext |-> <<".","d","o","c","x">>, loader |-> "UnstructuredWordDocumentLoader", args |-> "{}"],
       [ext |-> <<".","e","n","e","x">>, loader |-> "EverNoteLoader",                 args |-> "{}"],
       [ext |-> <<".","e","p","u","b">>, loader |-> "UnstructuredEPubLoader",         args |-> "{}"],
       [ext |-> <<".","h","t","m","l">>, loader |-> "UnstructuredHTMLLoader",         args |-> "{}"],
       [ext |-> <<".","m","d">>,         loader |-> "UnstructuredMarkdownLoader",     args |-> "{}"],
       [ext |-> <<".","o","d","t">>,     loader |-> "UnstructuredODTLoader",          args |-> "{}"],
       [ext |-> <<".","p","d","f">>,     loader |-> "PyPDFLoader",                    args |-> "{}"],
       [ext |-> <<".","p","p","t">>,     loader |-> "UnstructuredPowerPointLoader",   args |-> "{}"],
       [ext |-> <<".","p","p","t","x">>, loader |-> "UnstructuredPowerPointLoader",   args |-> "{}"],
       [ext |-> <<".","t","x","t">>,     loader |-> "TextLoader",                     args |-> "{encoding: utf8}"] >>

\* the keys of LOADER_MAPPING
Keys == {LOADER_MAPPING[k].ext : k \in 1..Len(LOADER_MAPPING)}

\* LOADER_MAPPING[ext]
Entry(ext) == LOADER_MAPPING[CHOOSE k \in 1..Len(LOADER_MAPPING) : LOADER_MAPPING[k].ext = ext]

\* ext = "." + file_path.rsplit(".", 1)[-1].lower()
ExtOf(file_path) == <<".">> \o Lower(RSplitLast(file_path))

\* load_single_document up to the call of loader.load(): the loader it builds,
\* or the ValueError it raises
load_single_document(file_path) ==
    LET ext == ExtOf(file_path) IN
    IF ext \in Keys
    THEN [kind |-> "loader", loader |-> Entry(ext).loader, args |-> Entry(ext).args,
          path |-> file_path]
    ELSE [kind |-> "ValueError", msg |-> "Unsupported file extension", ext |-> ext]

-----------------------------------------------------------------------------
(* The corpus: the files a source directory may hold, and what the external *)
(* loaders and the splitter return for them.                                *)

A_TXT == <<"s","/","a",".","t","x","t">>

B_PDF == <<"s","/","d","/","b",".","P","D","F">>

C_CSV == <<"s","/","d","/","c",".","c","s","v">>

E_TXT == <<"s","/","e",".","t","x","t">>

M_TXT == <<"s","/","m",".","T","x","t">>

H_TXT == <<"s","/",".","h",".","t","x","t">>

Z_BIN == <<"s","/","z",".","b","i","n">>

\* the files of the corpus, in the order the directory scan lists them
Corpus == <<A_TXT, B_PDF, C_CSV, E_TXT, M_TXT, H_TXT, Z_BIN>>

Range(s) == {s[k] : k \in 1..Len(s)}

\* length of a PDF page that splits into exactly batch_size chunks
PageLen == chunk_size + (batch_size - 1) * (chunk_size - chunk_overlap)

\* the text lengths of the documents the file's loader extracts: the CSV file has a
\* header and no row (CSVLoader: one document per row), e.txt is an empty file
\* (TextLoader: one document with empty text), the PDF has PagesPerPdf pages
\* (PyPDFLoader: one document per page), the other text files have TxtLen letters
FileTexts(path) ==
    CASE load_single_document(path).loader = "CSVLoader" -> <<>>
      [] load_single_document(path).loader = "PyPDFLoader" -> [k \in 1..PagesPerPdf |-> PageLen]
      [] path = E_TXT -> <<0>>
      [] OTHER -> <<TxtLen>>

\* loader.load(): the documents of a file, each with the path it was given as 'source'
LoaderLoad(path) ==
    [k \in 1..Len(FileTexts(path)) |-> [source |-> path, page |-> k, len |-> FileTexts(path)[k]]]

\* number of chunks of a text of length L: windows of chunk_size letters that
\* advance by chunk_size - chunk_overlap; an empty text gives no chunk
NumChunks(L) ==
    IF L = 0 THEN 0
    ELSE IF L <= chunk_size THEN 1
    ELSE 1 + ((L - chunk_size) + (chunk_size - chunk_overlap) - 1) \div (chunk_size - chunk_overlap)

\* the chunks of one document, in order, each with the document's metadata
SplitDocument(doc) ==
    [j \in 1..NumChunks(doc.len) |-> [source |-> doc.source, page |-> doc.page, idx |-> j]]

\* text_splitter.split_documents(documents): the chunks of every document, in order
RECURSIVE split_documents(_)
split_documents(documents) ==
    IF documents = <<>> THEN <<>>
    ELSE SplitDocument(Head(documents)) \o split_documents(Tail(documents))

-----------------------------------------------------------------------------
(* Corpus scanner *)

\* glob.glob(os.path.join(source_dir, "**/*" + suffix), recursive=True) with the
\* case-sensitive match of a POSIX file system: the files under source_dir, at any
\* depth, whose name ends with suffix, names starting with "." excluded
Glob(files, source_dir, suffix) ==
    SelectSeq(Corpus, LAMBDA p :
        /\ p \in files
        /\ StartsWith(p, source_dir \o <<"/">>)
        /\ EndsWith(p, suffix)
        /\ \A k \in (Len(source_dir) + 2)..Len(p) : ~(p[k] = "." /\ p[k-1] = "/"))

\* the loop over LOADER_MAPPING of load_documents, from entry k on
RECURSIVE AllFilesFrom(_, _, _)
AllFilesFrom(files, source_dir, k) ==
    IF k > Len(LOADER_MAPPING) THEN <<>>
    ELSE Glob(files, source_dir, Lower(LOADER_MAPPING[k].ext))
         \o Glob(files, source_dir, Upper(LOADER_MAPPING[k].ext))
         \o AllFilesFrom(files, source_dir, k + 1)

\* all_files of load_documents
AllFiles(files, source_dir) == AllFilesFrom(files, source_dir, 1)

\* the filter on ignored_files left out
FilteredFiles_NoFilter(files, source_dir, ignored) == AllFiles(files, source_dir)

\* filtered_files of load_documents
FilteredFiles(files, source_dir, ignored) ==
    SelectSeq(AllFiles(files, source_dir), LAMBDA p : p \notin Range(ignored))

-----------------------------------------------------------------------------
(* Incremental index sync and batch loader *)

\* does_vectorstore_exist: db.get()['documents'] is not empty. (The probe call
\* embeddings("example text") changes no state: its TypeError is caught.)
does_vectorstore_exist(db) == db # <<>>

\* [metadata['source'] for metadata in collection['metadatas']]
Sources(db) == [k \in 1..Len(db) |-> db[k].source]

\* the argument main passes to process_documents in each branch
IgnoredFiles(db) == IF does_vectorstore_exist(db) THEN Sources(db) ELSE <<>>

\* the slice taken one element late: texts[i + 1:i + batch_size]
BatchTexts_Late(t, k) ==
    SubSeq(t, k + 2, IF k + batch_size < Len(t) THEN k + batch_size ELSE Len(t))

\* batch_texts = texts[i:i + batch_size] (i is 0-based)
BatchTexts(t, k) ==
    SubSeq(t, k + 1, IF k + batch_size < Len(t) THEN k + batch_size ELSE Len(t))

\* the storage call of the batch loop of each branch
StorageOp(b) == IF b = "incremental" THEN "add_documents" ELSE "from_documents"

Terminal == {"idle", "done", "nonew", "failed"}

NoProbe == [kind |-> "none"]

-----------------------------------------------------------------------------
(* The pipeline driver *)

Init ==
    /\ fs \in SUBSET Range(Corpus)
    /\ store = <<>>
    /\ store0 = <<>>
    /\ pc = "idle"
    /\ branch = "none"
    /\ ignored_files = <<>>
    /\ filtered_files = <<>>
    /\ next_task = 1
    /\ running = {}
    /\ outqueue = <<>>
    /\ results = <<>>
    /\ pbar = 0
    /\ texts = <<>>
    /\ i = 0
    /\ calls = <<>>
    /\ loads = <<>>
    /\ split_calls = 0
    /\ exit_status = -1
    /\ runs = 0
    /\ changed = FALSE
    /\ rerun = FALSE
    /\ probe_path = <<>>
    /\ probe_result = NoProbe

\* main() up to the creation of the pool in load_documents: the index check, the
\* exclusion list, the scan and the filter
StartRun ==
    /\ pc \in Terminal
    /\ runs < MaxRuns
    /\ runs' = runs + 1
    /\ rerun' = (pc = "done" /\ ~changed)
    /\ changed' = FALSE
    /\ branch' = IF does_vectorstore_exist(store) THEN "incremental" ELSE "fresh"
    /\ ignored_files' = IgnoredFiles(store)
    /\ filtered_files' = FilteredFiles(fs, source_directory, IgnoredFiles(store))
    /\ next_task' = 1
    /\ running' = {}
    /\ outqueue' = <<>>
    /\ results' = <<>>
    /\ pbar' = 0
    /\ texts' = <<>>
    /\ i' = 0
    /\ calls' = <<>>
    /\ loads' = <<>>
    /\ split_calls' = 0
    /\ exit_status' = -1
    /\ pc' = "loading"
    /\ store0' = store
    /\ UNCHANGED <<fs, store, probe_path, probe_result>>

\* a free pool worker takes the next task of imap_unordered and calls
\* load_single_document on its path
TaskStart ==
    /\ pc = "loading"
    /\ next_task <= Len(filtered_files)
    /\ Cardinality(running) < cpu_count
    /\ running' = running \cup {next_task}
    /\ loads' = Append(loads, filtered_files[next_task])
    /\ next_task' = next_task + 1
    /\ UNCHANGED <<fs, store, store0, pc, branch, ignored_files, filtered_files, outqueue, results,
                   pbar, texts, i, calls, split_calls, exit_status, runs, changed, rerun,
                   probe_path, probe_result>>

\* the worker's load_single_document returns the documents of the file
TaskReturn(t) ==
    /\ pc = "loading"
    /\ t \in running
    /\ load_single_document(filtered_files[t]).kind = "loader"
    /\ running' = running \ {t}
    /\ outqueue' = Append(outqueue, [task |-> t, ok |-> TRUE,
                                     docs |-> LoaderLoad(filtered_files[t])])
    /\ UNCHANGED <<fs, store, store0, pc, branch, ignored_files, filtered_files, next_task, results,
                   pbar, texts, i, calls, loads, split_calls, exit_status, runs, changed,
                   rerun, probe_path, probe_result>>

\* the worker's load_single_document raises: the ValueError of an unregistered
\* extension, or an error of the loader (corrupt file, encoding error)
TaskRaise(t) ==
    /\ pc = "loading"
    /\ t \in running
    /\ running' = running \ {t}
    /\ outqueue' = Append(outqueue, [task |-> t, ok |-> FALSE, docs |-> <<>>])
    /\ UNCHANGED <<fs, store, store0, pc, branch, ignored_files, filtered_files, next_task, results,
                   pbar, texts, i, calls, loads, split_calls, exit_status, runs, changed,
                   rerun, probe_path, probe_result>>

\* results.extend(docs) with the list assigned instead of extended
Extend_Assign(acc, docs) == docs

\* results.extend(docs)
Extend(acc, docs) == acc \o docs

\* one iteration of the loop over pool.imap_unordered: results.extend(docs),
\* pbar.update()
Collect ==
    /\ pc = "loading"
    /\ outqueue # <<>>
    /\ Head(outqueue).ok
    /\ results' = Extend(results, Head(outqueue).docs)
    /\ pbar' = pbar + 1
    /\ outqueue' = Tail(outqueue)
    /\ UNCHANGED <<fs, store, store0, pc, branch, ignored_files, filtered_files, next_task, running,
                   texts, i, calls, loads, split_calls, exit_status, runs, changed, rerun,
                   probe_path, probe_result>>

\* the iteration over pool.imap_unordered re-raises the error of a task: the pool
\* is terminated and the exception leaves main
CollectRaise ==
    /\ pc = "loading"
    /\ outqueue # <<>>
    /\ ~Head(outqueue).ok
    /\ pc' = "failed"
    /\ exit_status' = 1
    /\ running' = {}
    /\ outqueue' = <<>>
    /\ UNCHANGED <<fs, store, store0, branch, ignored_files, filtered_files, next_task, results,
                   pbar, texts, i, calls, loads, split_calls, runs, changed, rerun,
                   probe_path, probe_result>>

\* the loop over imap_unordered has ended
AllCollected == pbar = Len(filtered_files)

\* the test "if not documents" left out
NoDocuments_Never(documents) == FALSE

\* not documents
NoDocuments(documents) == documents = <<>>

\* process_documents: "No new documents to load", exit(0)
NoNewDocuments ==
    /\ pc = "loading"
    /\ AllCollected
    /\ NoDocuments(results)
    /\ pc' = "nonew"
    /\ exit_status' = 0
    /\ UNCHANGED <<fs, store, store0, branch, ignored_files, filtered_files, next_task, running,
                   outqueue, results, pbar, texts, i, calls, loads, split_calls, runs,
                   changed, rerun, probe_path, probe_result>>

\* process_documents: split the documents and return the chunks to main
SplitDocuments ==
    /\ pc = "loading"
    /\ AllCollected
    /\ ~NoDocuments(results)
    /\ texts' = split_documents(results)
    /\ split_calls' = split_calls + 1
    /\ i' = 0
    /\ pc' = "storing"
    /\ UNCHANGED <<fs, store, store0, branch, ignored_files, filtered_files, next_task, running,
                   outqueue, results, pbar, calls, loads, exit_status, runs, changed, rerun,
                   probe_path, probe_result>>

\* the batch loop stopping one batch early
LoopDone_Early(t, k) == k + batch_size >= Len(t)

\* range(0, len(texts), batch_size) is exhausted at index k
LoopDone(t, k) == k >= Len(t)

\* one iteration of the batch loop: the batch is stored. Chroma.from_documents is
\* given the client of the run, so each call adds its batch to the one collection
\* of the persistent index, as add_documents does
SubmitBatch ==
    /\ pc = "storing"
    /\ ~LoopDone(texts, i)
    /\ store' = store \o BatchTexts(texts, i)
    /\ calls' = Append(calls, [op |-> StorageOp(branch), batch |-> BatchTexts(texts, i),
                               ok |-> TRUE])
    /\ i' = i + batch_size
    /\ UNCHANGED <<fs, store0, pc, branch, ignored_files, filtered_files, next_task, running,
                   outqueue, results, pbar, texts, loads, split_calls, exit_status, runs,
                   changed, rerun, probe_path, probe_result>>

\* the error of a storage call caught and the loop continued
SubmitBatchRaise_Swallow ==
    /\ pc = "storing"
    /\ ~LoopDone(texts, i)
    /\ calls' = Append(calls, [op |-> StorageOp(branch), batch |-> BatchTexts(texts, i),
                               ok |-> FALSE])
    /\ i' = i + batch_size
    /\ UNCHANGED <<fs, store, store0, pc, branch, ignored_files, filtered_files, next_task, running,
                   outqueue, results, pbar, texts, loads, split_calls, exit_status, runs,
                   changed, rerun, probe_path, probe_result>>

\* one iteration of the batch loop: the storage call raises and the exception
\* leaves main
SubmitBatchRaise ==
    /\ pc = "storing"
    /\ ~LoopDone(texts, i)
    /\ calls' = Append(calls, [op |-> StorageOp(branch), batch |-> BatchTexts(texts, i),
                               ok |-> FALSE])
    /\ pc' = "failed"
    /\ exit_status' = 1
    /\ UNCHANGED <<fs, store, store0, branch, ignored_files, filtered_files, next_task, running,
                   outqueue, results, pbar, texts, i, loads, split_calls, runs, changed,
                   rerun, probe_path, probe_result>>

\* after the batch loop: db.persist(), "Ingestion complete"
Persist ==
    /\ pc = "storing"
    /\ LoopDone(texts, i)
    /\ calls' = Append(calls, [op |-> "persist", batch |-> <<>>, ok |-> TRUE])
    /\ pc' = "done"
    /\ exit_status' = 0
    /\ UNCHANGED <<fs, store, store0, branch, ignored_files, filtered_files, next_task, running,
                   outqueue, results, pbar, texts, i, loads, split_calls, runs, changed,
                   rerun, probe_path, probe_result>>

\* between two runs a file is added to the source directory
AddFile(f) ==
    /\ pc \in Terminal
    /\ runs < MaxRuns
    /\ ~changed
    /\ f \notin fs
    /\ fs' = fs \cup {f}
    /\ changed' = TRUE
    /\ UNCHANGED <<store, store0, pc, branch, ignored_files, filtered_files, next_task, running,
                   outqueue, results, pbar, texts, i, calls, loads, split_calls,
                   exit_status, runs, rerun, probe_path, probe_result>>

Next ==
    \/ StartRun
    \/ TaskStart
    \/ \E t \in running : TaskReturn(t)
    \/ \E t \in running : TaskRaise(t)
    \/ Collect
    \/ CollectRaise
    \/ NoNewDocuments
    \/ SplitDocuments
    \/ SubmitBatch
    \/ SubmitBatchRaise
    \/ Persist
    \/ \E f \in Range(Corpus) : AddFile(f)

Spec == Init /\ [][Next]_vars

-----------------------------------------------------------------------------
(* Direct calls of load_single_document *)

\* s with its first letter in upper case
Capitalize(s) == IF s = <<>> THEN s ELSE <<UpperChar(s[1])>> \o Tail(s)

\* what precedes the last part of a probed path: nothing (a path with no "."),
\* a name with its ".", a directory with a "." in its name before a name with its
\* ".", a directory with a "." in its name before a name with none
ProbeStems ==
    { <<>>,
      <<"a",".">>,
      <<"s","/","d",".","v","/","n",".">>,
      <<"a",".","b","/">> }

\* the letters of the registered extensions, and of some that are not registered
ProbeNames ==
    {Tail(e) : e \in Keys} \cup {<<"b","i","n">>, <<"t","x">>, <<"p","d","f","x">>, <<>>}

\* the last parts of the probed paths: each name in lower, upper and mixed case
ProbeExts == ProbeNames \cup {Upper(n) : n \in ProbeNames} \cup {Capitalize(n) : n \in ProbeNames}

ProbePaths == {st \o e : st \in ProbeStems, e \in ProbeExts}

InitResolve ==
    /\ fs = {}
    /\ store = <<>>
    /\ store0 = <<>>
    /\ pc = "idle"
    /\ branch = "none"
    /\ ignored_files = <<>>
    /\ filtered_files = <<>>
    /\ next_task = 1
    /\ running = {}
    /\ outqueue = <<>>
    /\ results = <<>>
    /\ pbar = 0
    /\ texts = <<>>
    /\ i = 0
    /\ calls = <<>>
    /\ loads = <<>>
    /\ split_calls = 0
    /\ exit_status = -1
    /\ runs = 0
    /\ changed = FALSE
    /\ rerun = FALSE
    /\ probe_path \in ProbePaths
    /\ probe_result = NoProbe

\* load_single_document(probe_path) is called
Resolve ==
    /\ probe_result = NoProbe
    /\ probe_result' = load_single_document(probe_path)
    /\ UNCHANGED <<mainVars, probe_path>>

NextResolve == Resolve

SpecResolve == InitResolve /\ [][NextResolve]_vars

-----------------------------------------------------------------------------
(* Definitions used to state the properties *)

\* a run of main() has started and the source directory is as it scanned it
Scanned == pc # "idle" /\ ~changed

\* the batch submissions among the storage calls of the run
Batches == SelectSeq(calls, LAMBDA c : c.op # "persist")

RECURSIVE ConcatBatches(_)
ConcatBatches(cs) == IF cs = <<>> THEN <<>> ELSE Head(cs).batch \o ConcatBatches(Tail(cs))

CeilDiv(n, b) == (n + b - 1) \div b

Count(s, x) == Cardinality({k \in 1..Len(s) : s[k] = x})

\* the two sequences hold the same elements the same number of times
SameBag(a, b) ==
    /\ Len(a) = Len(b)
    /\ \A x \in Range(a) \cup Range(b) : Count(a, x) = Count(b, x)

RECURSIVE DocsOfFiles(_)
DocsOfFiles(files) ==
    IF files = <<>> THEN <<>> ELSE LoaderLoad(Head(files)) \o DocsOfFiles(Tail(files))

\* the path has a last "." and so a text after it
HasExtension(p) == \E k \in 1..Len(p) : p[k] = "."

\* the extension of a path as a registry key: "." and the lowercased letters
\* after the last "."
LowerExt(p) == <<".">> \o Lower(SubSeq(p, LastDot(p) + 1, Len(p)))

\* no component of the path below the source directory starts with "."
Visible(p) == \A k \in 2..Len(p) : ~(p[k] = "." /\ p[k-1] = "/")

\* the files under source_directory whose extension, whatever the case of its
\* letters, is registered
Registered(files) ==
    {p \in files : StartsWith(p, source_directory \o <<"/">>)
                   /\ HasExtension(p) /\ LowerExt(p) \in Keys}

\* the 'source' values of the records the index held when the run started
StoredSources == Range(Sources(store0))

-----------------------------------------------------------------------------
(* Properties *)

\* C1: a run that follows a completed run ("Ingestion complete") against the same
\* index, with the source directory unchanged, finds every enumerated file in its
\* exclusion set: it hands no file to the pool, loads nothing, submits no storage
\* call and can only end in the "No new documents to load" state.
C1_RerunProcessesNothing ==
    rerun =>
        /\ Range(AllFiles(fs, source_directory)) \subseteq Range(ignored_files)
        /\ filtered_files = <<>>
        /\ loads = <<>>
        /\ calls = <<>>
        /\ pc \in {"loading", "nonew"}

\* C2: in a run that starts with no index only the first batch is submitted with
\* from_documents and every later batch with add_documents; in a run that starts
\* with an index every batch is submitted with add_documents.
C2_StorageModePerBatch ==
    \A k \in 1..Len(Batches) :
        IF branch = "incremental"
        THEN Batches[k].op = "add_documents"
        ELSE Batches[k].op = (IF k = 1 THEN "from_documents" ELSE "add_documents")

\* C3: the files handed to the worker pool are exactly the files under the source
\* directory whose extension, compared without regard to case, is a key of
\* LOADER_MAPPING, minus the files in ignored_files. (Stated here for the files
\* with no "." at the start of a component's name only, which is weaker.)
C3_ScannerCoverage ==
    Scanned =>
        Range(filtered_files) =
            {p \in Registered(fs) : Visible(p)} \ Range(ignored_files)

\* C4: the batch loop submits ceil(N / batch_size) batches, each of 1 to batch_size
\* chunks, whose concatenation in submission order is the chunk sequence (at every
\* moment of the loop a prefix of it); 3 chunks give one batch of 3, no chunk gives
\* no batch.
C4_Batching ==
    /\ pc \in {"storing", "done"} =>
        /\ \A k \in 1..Len(Batches) :
              Len(Batches[k].batch) >= 1 /\ Len(Batches[k].batch) <= batch_size
        /\ Len(ConcatBatches(Batches)) <= Len(texts)
        /\ ConcatBatches(Batches) = SubSeq(texts, 1, Len(ConcatBatches(Batches)))
    /\ pc = "done" =>
        /\ Len(Batches) = CeilDiv(Len(texts), batch_size)
        /\ ConcatBatches(Batches) = texts
        /\ Len(texts) = 3 => Len(Batches) = 1 /\ Len(Batches[1].batch) = 3
        /\ Len(texts) = 0 => Batches = <<>>

\* C4 witness: a completed run of three batches, the last one partial
C4_Witness ==
    /\ pc = "done"
    /\ Len(Batches) = 3
    /\ Len(Batches[3].batch) < batch_size

\* C5: when the filtered candidate list is empty the run can only end with "No new
\* documents to load" and exit status 0, and that end is enabled; the splitter is
\* not called and nothing is submitted to the storage backend.
C5_EmptyCorpus ==
    (pc \notin {"idle"} /\ filtered_files = <<>>) =>
        /\ pc \in {"loading", "nonew"}
        /\ pc = "loading" => ENABLED NoNewDocuments
        /\ pc = "nonew" => exit_status = 0
        /\ split_calls = 0
        /\ calls = <<>>
        /\ store = store0

\* C5 witness: an incremental run whose candidates are all excluded has ended
C5_Witness ==
    /\ pc = "nonew"
    /\ filtered_files = <<>>
    /\ AllFiles(fs, source_directory) # <<>>
    /\ branch = "incremental"
    /\ ~changed

\* C6: a run that reaches Done has called persist() exactly once, as its last
\* storage call, after the batch loop has submitted every batch; no run calls it
\* before Done.
C6_PersistOnce ==
    LET P == {k \in 1..Len(calls) : calls[k].op = "persist"} IN
    /\ pc = "done" =>
        /\ P = {Len(calls)}
        /\ i >= Len(texts)
        /\ ConcatBatches(Batches) = texts
    /\ pc \in {"loading", "storing", "nonew", "failed"} => P = {}

\* C6 witness: an incremental run of two batches has reached Done
C6_Witness ==
    /\ pc = "done"
    /\ branch = "incremental"
    /\ Len(calls) = 3

\* C7 (state part): the run is incremental exactly when the index held a record at
\* its start; the exclusion list then holds exactly the stored 'source' values, and
\* is empty otherwise; no file with a stored 'source' is loaded, chunked or stored;
\* in a fresh run every enumerated file is handed to the pool.
C7_DeltaOnlyState ==
    pc # "idle" =>
        /\ branch = "incremental" <=> store0 # <<>>
        /\ Range(ignored_files) = (IF store0 # <<>> THEN StoredSources ELSE {})
        /\ branch = "fresh" => ignored_files = <<>>
        /\ (branch = "fresh" /\ ~changed) =>
              filtered_files = AllFiles(fs, source_directory)
        /\ \A k \in 1..Len(loads) : loads[k] \notin StoredSources
        /\ \A k \in 1..Len(results) : results[k].source \notin StoredSources
        /\ \A k \in 1..Len(texts) : texts[k].source \notin StoredSources
        /\ \A k \in 1..Len(Batches) : \A j \in 1..Len(Batches[k].batch) :
              Batches[k].batch[j].source \notin StoredSources
        /\ pc \in {"storing", "done", "nonew"} => loads = filtered_files

\* C7 (step part): the exclusion list does not change while a run is under way
C7_ExclusionFixed == pc \in {"loading", "storing"} => ignored_files' = ignored_files

\* C7: the state part holds always, and the exclusion list does not change while a
\* run is under way.
C7_DeltaOnly == []C7_DeltaOnlyState /\ [][C7_ExclusionFixed]_vars

\* C7 witness: an incremental run that skipped a stored file and loaded a new one
C7_Witness ==
    /\ pc = "done"
    /\ branch = "incremental"
    /\ loads # <<>>
    /\ \E k \in 1..Len(AllFiles(fs, source_directory)) :
          AllFiles(fs, source_directory)[k] \in StoredSources

C9_FailureFatalState ==
    /\ (\E k \in 1..Len(outqueue) : ~outqueue[k].ok) => pc = "loading"
    /\ pc \in {"storing", "done", "nonew"} => pbar = Len(filtered_files)
    /\ \A k \in 1..Len(calls) : ~calls[k].ok => (k = Len(calls) /\ pc = "failed")
    /\ pc = "failed" =>
        /\ \A k \in 1..Len(calls) : calls[k].op # "persist"
        /\ exit_status = 1
        /\ split_calls = 0 => (calls = <<>> /\ texts = <<>> /\ store = store0)
        /\ split_calls > 0 =>
              /\ calls # <<>>
              /\ ~calls[Len(calls)].ok
              /\ store = store0 \o ConcatBatches(SubSeq(calls, 1, Len(calls) - 1))
              /\ ConcatBatches(calls) = SubSeq(texts, 1, Len(ConcatBatches(calls)))

\* C9 (step part): a failed run makes no further step: the only step from the
\* failed state that changes the run's variables starts the next run
C9_FailedStays ==
    pc = "failed" =>
        /\ pc' \in {"failed", "loading"}
        /\ pc' = "failed" => (store' = store /\ calls' = calls)

\* C9: the state part holds always, and a failed run never goes on to Done.
C9_FailureFatal == []C9_FailureFatalState /\ [][C9_FailedStays]_vars

\* C9 witness: the second batch of a run failed after the first was stored
C9_Witness ==
    /\ pc = "failed"
    /\ Len(calls) = 2
    /\ calls[1].ok
    /\ store # store0

\* C10 (state part): every task is dispatched once, in list order; the progress
\* count is the number of collected files; chunking and every later step find all
\* files loaded and collected and the pool idle, and the collected documents are
\* those of the candidate files, each as often as its file is listed.
C10_BarrierState ==
    pc # "idle" =>
        /\ loads = SubSeq(filtered_files, 1, next_task - 1)
        /\ pbar <= Len(filtered_files)
        /\ pc = "loading" =>
              pbar + Len(outqueue) + Cardinality(running) = next_task - 1
        /\ (split_calls > 0 \/ pc \in {"storing", "done", "nonew"}) =>
              /\ pbar = Len(filtered_files)
              /\ loads = filtered_files
              /\ running = {}
              /\ outqueue = <<>>
              /\ SameBag(results, DocsOfFiles(filtered_files))

\* C10 (step part): the progress count changes by one, with the collection of one
\* file, which adds exactly that file's documents; the start of a run resets it
C10_ProgressStep ==
    pbar' # pbar =>
        \/ pc \in Terminal /\ pc' = "loading" /\ pbar' = 0
        \/ /\ pbar' = pbar + 1
           /\ \E t \in 1..Len(filtered_files) :
                 results' = results \o LoaderLoad(filtered_files[t])

\* C10: whatever the completion order of the workers, chunking starts only when
\* every candidate file was loaded once and collected, with exactly the documents
\* of those files, and the progress count goes up by one per collected file.
C10_Barrier == []C10_BarrierState /\ [][C10_ProgressStep]_vars

\* C10 witness: two files were collected in the reverse of their list order and
\* the chunks were made
C10_Witness ==
    /\ pc = "storing"
    /\ filtered_files = <<B_PDF, A_TXT>>
    /\ results[1].source = A_TXT

====
